---- MODULE Spec2Model ----
(***************************************************************************)
(* Supervision core of potato: the full-node supervisor (BitcoinNode::new  *)
(* and BitcoinNode::wait_for_ready) and the orchestrator (main) that       *)
(* sequences node readiness, configuration resolution and the race of the  *)
(* two protocol engines against Ctrl+C.                                    *)
(*                                                                         *)
(* Time is virtual: `elapsed` is start.elapsed() in whole seconds, advanced*)
(* only by tokio::time::sleep; a status call itself takes no time.         *)
(***************************************************************************)
EXTENDS Integers, Sequences, FiniteSets, TLC

(***************************************************************************)
(* Bounds of the model (not program constants).                            *)
(***************************************************************************)
\* InitialSync mode has no deadline: the number of hour-long sleeps explored.
MaxSyncSleeps == 3
\* How many times in a row the proxy configuration is resolved.
MaxResolves == 2

(***************************************************************************)
(* Program constants.                                                      *)
(***************************************************************************)
MAX_WAIT == 8 * 60
INITIAL_WAIT == 1
MAX_RETRY_INTERVAL == 30
SYNC_CHECK_INTERVAL == 3600

\* bitcoin::Network (rust-bitcoin 0.29: four variants).
Networks == {"Bitcoin", "Testnet", "Signet", "Regtest"}

\* The two protocol engines raced by main's select!.
Engines == {"proxy", "pool"}

\* Failures an engine's run() may return (opaque to this layer).
EngineErrors == {"e1", "e2"}

\* States of a configuration file as ext_config sees it: build() fails for a
\* missing or syntactically malformed file; try_deserialize fails for a
\* well-formed file that does not match the schema.
FileStates == {"missing", "unreadable", "malformed", "schema_mismatch", "valid"}

VARIABLES
    network,        \* args.network
    initial_sync,   \* args.initial_sync
    pc,             \* position of the startup sequence
    outcome,        \* what main returned: [kind, cause]
    dirCreated,     \* fs::create_dir_all(&data_dir) has succeeded
    conf,           \* content of bitcoin_data/bitcoin.conf (<<>>: not written)
    child,          \* the bitcoind child process: "none" | "running"
    client,         \* RPC port the BitcoinCoreClient is bound to (0: none)
    newResult,      \* what BitcoinNode::new returned
    newCalls,       \* how many times BitcoinNode::new was entered
    wait_time,      \* wait_for_ready: current backoff interval (s)
    elapsed,        \* wait_for_ready: start.elapsed() (s)
    ready,          \* what wait_for_ready returned: "none" | "Ready" | "Timeout"
    last,           \* result of the last get_blockchain_info call
    callAt,         \* elapsed time at which the last status call was issued
    attempts,       \* number of status calls issued
    syncSleeps,     \* number of SYNC_CHECK_INTERVAL sleeps taken
    waitCalls,      \* how many times wait_for_ready was entered
    tokenCreated,   \* CancellationToken::new() has run
    cancelled,      \* state of the cancellation token
    cancelCount,    \* number of cancel() invocations
    proxyCfg,       \* proxy_settings: [src, upstream_authority_pubkey]
    poolCfg,        \* pool_settings: [src, authority_public_key, coinbase_outputs]
    proxyPrev,      \* the proxy configuration resolved before the current one
    resolves,       \* number of proxy configuration resolutions
    callArgs,       \* process_coinbase_output's parameters while it runs
    xpub,           \* prompt loop: the validated extended public key
    lastLine,       \* the line last read from the console
    obtained,       \* the arm of process_coinbase_output that was taken
    coinbaseRes,    \* what process_coinbase_output returned
    liftSrc,        \* the external failure handed to a From conversion
    lifted,         \* the Error or PoolError value the conversion built
    shown,          \* the Display text of that value
    coinbase,       \* "none" | "derived" | "installed"
    engine,         \* engine future: not_created | created | running | returned | dropped
    engineResult,   \* what an engine's run() returned: "none" | "Ok" | an error
    polled,         \* engines whose future has been polled at least once
    event           \* the select! branch that completed first

nodeVars == <<dirCreated, conf, child, client, newResult, newCalls>>
waitVars == <<wait_time, elapsed, ready, last, callAt, attempts, syncSleeps, waitCalls>>
promptVars == <<callArgs, xpub, lastLine, obtained, coinbaseRes>>
cfgVars == <<proxyCfg, poolCfg, coinbase, proxyPrev, resolves, promptVars>>
tokenVars == <<tokenCreated, cancelled, cancelCount>>
engineVars == <<engine, engineResult, polled, event>>
argVars == <<network, initial_sync>>
errVars == <<liftSrc, lifted, shown>>
vars == <<argVars, errVars, pc, outcome, nodeVars, waitVars, cfgVars, tokenVars,
          engineVars>>

Min(a, b) == IF a <= b THEN a ELSE b

NoOutcome == [kind |-> "none", cause |-> "none"]
Ok == [kind |-> "Ok", cause |-> "none"]
Err(c) == [kind |-> "Err", cause |-> c]

(***************************************************************************)
(* BitcoinNode::new                                                        *)
(***************************************************************************)
SupportedNetworks == {"Regtest", "Testnet", "Signet"}

\* let rpc_port = match network { ... }   (0: the `_` arm, no port)
RpcPort(n) ==
    CASE n = "Regtest" -> 18443
      [] n = "Testnet" -> 18332
      [] n = "Signet" -> 38332
      [] OTHER -> 0

P2pPortMutant(rpc) == rpc + 2
P2pPort(rpc) == rpc + 1
ZmqBlockPort(rpc) == rpc + 2
ZmqTxPort(rpc) == rpc + 3

\* BITCOIN_CONF_TEMPLATE, one record per line: the section it stands in, its
\* key, the literal text of its value and the placeholder the value ends with.
BITCOIN_CONF_TEMPLATE ==
    << [sec |-> "", key |-> "regtest", lit |-> "1", ph |-> ""],
       [sec |-> "", key |-> "fallbackfee", lit |-> "0.0004", ph |-> ""],
       [sec |-> "", key |-> "txindex", lit |-> "1", ph |-> ""],
       [sec |-> "", key |-> "server", lit |-> "1", ph |-> ""],
       [sec |-> "", key |-> "rpcuser", lit |-> "bitcoin", ph |-> ""],
       [sec |-> "", key |-> "rpcpassword", lit |-> "bitcoin", ph |-> ""],
       [sec |-> "", key |-> "zmqpubrawblock", lit |-> "tcp://127.0.0.1:", ph |-> "zmq_block_port"],
       [sec |-> "", key |-> "zmqpubrawtx", lit |-> "tcp://127.0.0.1:", ph |-> "zmq_tx_port"],
       [sec |-> "", key |-> "rpcworkqueue", lit |-> "1024", ph |-> ""],
       [sec |-> "", key |-> "rpcthreads", lit |-> "64", ph |-> ""],
       [sec |-> "", key |-> "deprecatedrpc", lit |-> "warnings", ph |-> ""],
       [sec |-> "regtest", key |-> "port", lit |-> "", ph |-> "p2p_port"],
       [sec |-> "regtest", key |-> "bind", lit |-> "127.0.0.1:", ph |-> "p2p_port"],
       [sec |-> "regtest", key |-> "rpcport", lit |-> "", ph |-> "rpc_port"],
       [sec |-> "regtest", key |-> "rpcbind", lit |-> "127.0.0.1:", ph |-> "rpc_port"] >>

\* The value substituted for a placeholder by the chain of .replace() calls.
Substitute(ph, rpc) ==
    CASE ph = "rpc_port" -> rpc
      [] ph = "p2p_port" -> P2pPort(rpc)
      [] ph = "zmq_block_port" -> ZmqBlockPort(rpc)
      [] ph = "zmq_tx_port" -> ZmqTxPort(rpc)
      [] OTHER -> 0

\* let conf = BITCOIN_CONF_TEMPLATE.replace(...)...: every line keeps its
\* section, key and literal text; a placeholder becomes its port (0: none).
RenderConf(rpc) ==
    [i \in DOMAIN BITCOIN_CONF_TEMPLATE |->
        [sec |-> BITCOIN_CONF_TEMPLATE[i].sec,
         key |-> BITCOIN_CONF_TEMPLATE[i].key,
         lit |-> BITCOIN_CONF_TEMPLATE[i].lit,
         port |-> Substitute(BITCOIN_CONF_TEMPLATE[i].ph, rpc)]]

\* The port a rendered document gives for `key` (0 when the key is absent).
ConfPort(doc, key) ==
    IF \E i \in DOMAIN doc : doc[i].key = key
    THEN doc[CHOOSE i \in DOMAIN doc : doc[i].key = key].port
    ELSE 0

\* new() returns: the caller resumes at "launched".
NewReturn(r) ==
    /\ newResult' = r
    /\ pc' = "launched"

\* fs::create_dir_all(&data_dir).await?
NewCreateDir ==
    /\ pc = "new"
    /\ \E ok \in BOOLEAN :
        IF ok
        THEN /\ dirCreated' = TRUE
             /\ pc' = "new_ports"
             /\ UNCHANGED newResult
        ELSE /\ NewReturn("Io")
             /\ UNCHANGED dirCreated
    /\ UNCHANGED <<argVars, errVars, outcome, conf, child, client, newCalls, waitVars,
                   cfgVars, tokenVars, engineVars>>

\* match network { ... _ => return Err("Unsupported network") }, rendering of
\* the template and fs::write(data_dir.join("bitcoin.conf"), conf).await?
NewWriteConfSkipped ==
    /\ pc = "new_ports"
    /\ IF network \notin SupportedNetworks
       THEN NewReturn("UnsupportedNetwork")
       ELSE /\ pc' = "new_which"
            /\ UNCHANGED newResult
    /\ UNCHANGED <<argVars, errVars, outcome, dirCreated, conf, child, client, newCalls,
                   waitVars, cfgVars, tokenVars, engineVars>>
NewWriteConf ==
    /\ pc = "new_ports"
    /\ IF network \notin SupportedNetworks
       THEN /\ NewReturn("UnsupportedNetwork")
            /\ UNCHANGED conf
       ELSE \E ok \in BOOLEAN :
            IF ok
            THEN /\ conf' = RenderConf(RpcPort(network))
                 /\ pc' = "new_which"
                 /\ UNCHANGED newResult
            ELSE /\ NewReturn("Io")
                 /\ UNCHANGED conf
    /\ UNCHANGED <<argVars, errVars, outcome, dirCreated, child, client, newCalls,
                   waitVars, cfgVars, tokenVars, engineVars>>

\* which::which("bitcoind")? and cmd.spawn()?
NewSpawn ==
    /\ pc = "new_which"
    /\ \E r \in {"Ok", "NotFound", "Spawn"} :
        IF r = "Ok"
        THEN /\ child' = "running"
             /\ pc' = "new_client"
             /\ UNCHANGED newResult
        ELSE /\ NewReturn(r)
             /\ UNCHANGED child
    /\ UNCHANGED <<argVars, errVars, outcome, dirCreated, conf, client, newCalls,
                   waitVars, cfgVars, tokenVars, engineVars>>

\* BitcoinCoreClient::new(&rpc_url, auth)? ; Ok(Self { client, data_dir })
NewClient ==
    /\ pc = "new_client"
    /\ \E ok \in BOOLEAN :
        IF ok
        THEN /\ client' = RpcPort(network)
             /\ NewReturn("Ok")
        ELSE /\ NewReturn("Client")
             /\ UNCHANGED client
    /\ UNCHANGED <<argVars, errVars, outcome, dirCreated, conf, child, newCalls,
                   waitVars, cfgVars, tokenVars, engineVars>>

(***************************************************************************)
(* BitcoinNode::wait_for_ready                                             *)
(***************************************************************************)
\* if !initial_sync && start.elapsed() >= MAX_WAIT
TimedOutAtTwiceMaxWait(sync, el) == ~sync /\ el >= 2 * MAX_WAIT
TimedOutLate(sync, el) == ~sync /\ el > MAX_WAIT + MAX_RETRY_INTERVAL
TimedOutAnyMode(sync, el) == el >= MAX_WAIT
TimedOut(sync, el) == ~sync /\ el >= MAX_WAIT

\* if initial_sync { if info.initial_block_download { ... continue } }
StillSyncingAnyMode(sync, ibd) == ibd
StillSyncing(sync, ibd) == sync /\ ibd

\* sleep(if initial_sync { SYNC_CHECK_INTERVAL } else { wait_time })
SleepForBackoffOnly(sync, w) == w
SleepFor(sync, w) == IF sync THEN SYNC_CHECK_INTERVAL ELSE w

\* wait_time = std::cmp::min(wait_time * 2, MAX_RETRY_INTERVAL)
NextWaitTimeCappedLate(w) == Min(w * 2, 2 * MAX_RETRY_INTERVAL)
NextWaitTimeUncapped(w) == w * 2
NextWaitTime(w) == Min(w * 2, MAX_RETRY_INTERVAL)

\* bitcoin_node.wait_for_ready(args.initial_sync): let start = Instant::now();
\* let mut wait_time = INITIAL_WAIT;
CallWaitForReady ==
    /\ pc = "launched"
    /\ newResult = "Ok"
    /\ pc' = "polling"
    /\ wait_time' = INITIAL_WAIT
    /\ elapsed' = 0
    /\ waitCalls' = waitCalls + 1
    /\ UNCHANGED <<argVars, errVars, outcome, nodeVars, ready, last, callAt, attempts,
                   syncSleeps, cfgVars, tokenVars, engineVars>>

\* One loop iteration whose get_blockchain_info() returns Ok(info), with
\* info.initial_block_download = ibd.
WaitStatusOk ==
    /\ pc = "polling"
    /\ \E ibd \in BOOLEAN :
        /\ StillSyncing(initial_sync, ibd) => syncSleeps < MaxSyncSleeps
        /\ last' = IF ibd THEN "ok_ibd" ELSE "ok_synced"
        /\ IF StillSyncing(initial_sync, ibd)
           THEN /\ elapsed' = elapsed + SYNC_CHECK_INTERVAL
                /\ syncSleeps' = syncSleeps + 1
                /\ UNCHANGED <<pc, ready>>
           ELSE /\ ready' = "Ready"
                /\ pc' = "waited"
                /\ UNCHANGED <<elapsed, syncSleeps>>
    /\ callAt' = elapsed
    /\ attempts' = attempts + 1
    /\ UNCHANGED <<argVars, errVars, outcome, nodeVars, wait_time, waitCalls, cfgVars,
                   tokenVars, engineVars>>

\* One loop iteration whose get_blockchain_info() returns Err(e).
WaitStatusErrKillsChild ==
    /\ pc = "polling"
    /\ initial_sync => syncSleeps < MaxSyncSleeps
    /\ last' = "err"
    /\ callAt' = elapsed
    /\ attempts' = attempts + 1
    /\ IF TimedOut(initial_sync, elapsed)
       THEN /\ ready' = "Timeout"
            /\ pc' = "waited"
            /\ child' = "killed"
            /\ UNCHANGED <<elapsed, wait_time, syncSleeps>>
       ELSE /\ elapsed' = elapsed + SleepFor(initial_sync, wait_time)
            /\ wait_time' = IF ~initial_sync THEN NextWaitTime(wait_time) ELSE wait_time
            /\ syncSleeps' = IF initial_sync THEN syncSleeps + 1 ELSE syncSleeps
            /\ UNCHANGED <<pc, ready, child>>
    /\ UNCHANGED <<argVars, errVars, outcome, dirCreated, conf, client, newResult,
                   newCalls, waitCalls, cfgVars, tokenVars, engineVars>>
WaitStatusErr ==
    /\ pc = "polling"
    /\ initial_sync => syncSleeps < MaxSyncSleeps
    /\ last' = "err"
    /\ callAt' = elapsed
    /\ attempts' = attempts + 1
    /\ IF TimedOut(initial_sync, elapsed)
       THEN /\ ready' = "Timeout"
            /\ pc' = "waited"
            /\ UNCHANGED <<elapsed, wait_time, syncSleeps>>
       ELSE /\ elapsed' = elapsed + SleepFor(initial_sync, wait_time)
            /\ wait_time' = IF ~initial_sync THEN NextWaitTime(wait_time) ELSE wait_time
            /\ syncSleeps' = IF initial_sync THEN syncSleeps + 1 ELSE syncSleeps
            /\ UNCHANGED <<pc, ready>>
    /\ UNCHANGED <<argVars, errVars, outcome, nodeVars, waitCalls, cfgVars, tokenVars,
                   engineVars>>

(***************************************************************************)
(* main                                                                    *)
(***************************************************************************)
\* main returns `r`.
MainReturn(r) ==
    /\ outcome' = r
    /\ pc' = "done"

\* if args.network == bitcoin::Network::Bitcoin { return Err(...) }, logger
\* initialisation, and the call of BitcoinNode::new.
MainnetCheckMissing ==
    /\ pc = "start"
    /\ pc' = "new"
    /\ newCalls' = newCalls + 1
    /\ UNCHANGED <<argVars, errVars, outcome, dirCreated, conf, child, client, newResult,
                   waitVars, cfgVars, tokenVars, engineVars>>
MainnetCheck ==
    /\ pc = "start"
    /\ IF network = "Bitcoin"
       THEN /\ MainReturn(Err("Mainnet"))
            /\ UNCHANGED newCalls
       ELSE /\ pc' = "new"
            /\ newCalls' = newCalls + 1
            /\ UNCHANGED outcome
    /\ UNCHANGED <<argVars, errVars, dirCreated, conf, child, client, newResult,
                   waitVars, cfgVars, tokenVars, engineVars>>

\* BitcoinNode::new(bitcoin_data_dir, args.network).await? : the Err arm of `?`
MainLaunchFailedIgnored ==
    /\ pc = "launched"
    /\ newResult # "Ok"
    /\ pc' = "token"
    /\ UNCHANGED <<argVars, errVars, outcome, nodeVars, waitVars, cfgVars, tokenVars,
                   engineVars>>
MainLaunchFailed ==
    /\ pc = "launched"
    /\ newResult # "Ok"
    /\ MainReturn(Err(newResult))
    /\ UNCHANGED <<argVars, errVars, nodeVars, waitVars, cfgVars, tokenVars, engineVars>>

\* bitcoin_node.wait_for_ready(args.initial_sync).await? : both arms of `?`
MainAfterWaitIgnored ==
    /\ pc = "waited"
    /\ pc' = "token"
    /\ UNCHANGED <<argVars, errVars, outcome, nodeVars, waitVars, cfgVars, tokenVars,
                   engineVars>>
MainAfterWait ==
    /\ pc = "waited"
    /\ IF ready = "Ready"
       THEN /\ pc' = "token"
            /\ UNCHANGED outcome
       ELSE MainReturn(Err("Timeout"))
    /\ UNCHANGED <<argVars, errVars, nodeVars, waitVars, cfgVars, tokenVars, engineVars>>

\* let cancel_token = CancellationToken::new(); and its two clones
MainCreateToken ==
    /\ pc = "token"
    /\ tokenCreated' = TRUE
    /\ pc' = "proxy_config"
    /\ UNCHANGED <<argVars, errVars, outcome, nodeVars, waitVars, cfgVars, cancelled,
                   cancelCount, engineVars>>

(***************************************************************************)
(* configuration: pool and proxy configuration                             *)
(***************************************************************************)
\* authority_public_key of create_default_pool_config.
DEFAULT_AUTHORITY_KEY == "9auqWEzQDVyd2oe1JVGFLMLHZtCo2FFqZwtKA5gd9xbuEu7PH72"

\* Authority keys a configuration may carry.
AuthorityKeys == {DEFAULT_AUTHORITY_KEY, "authority_key_of_file"}

\* A public key as text: the extended key it was derived from and the child
\* indices of the derivation (<<>>: a literal key).
PubKey(x, p) == [xpub |-> x, path |-> p]

\* CoinbaseOutput::new(output_script_type, output_script_value)
CoinbaseOutput(t, v) == [output_script_type |-> t, output_script_value |-> v]

NoPoolCfg ==
    [src |-> "none", authority_public_key |-> "none", coinbase_outputs |-> <<>>]
NoProxyCfg == [src |-> "none", upstream_authority_pubkey |-> "none"]

\* coinbase_outputs lists a pool configuration file may hold.
FileCoinbaseOutputs ==
    { <<>>,
      << CoinbaseOutput("P2PKH", PubKey("file_output_1", <<>>)),
         CoinbaseOutput("P2WPKH", PubKey("file_output_2", <<>>)) >> }

\* The pool configuration file: its state and, when it matches the
\* PoolConfiguration schema, the fields this layer reads.
PoolFiles ==
    {[state |-> st, authority_public_key |-> "absent", coinbase_outputs |-> <<>>] :
        st \in FileStates \ {"valid"}}
    \cup {[state |-> "valid", authority_public_key |-> k, coinbase_outputs |-> o] :
        k \in AuthorityKeys, o \in FileCoinbaseOutputs}

\* The proxy configuration file; a well-formed file without the (required)
\* upstream_authority_pubkey field does not match the ProxyConfig schema.
ProxyFiles ==
    {[state |-> st, upstream_authority_pubkey |-> "absent"] :
        st \in FileStates \ {"valid"}}
    \cup {[state |-> "valid", upstream_authority_pubkey |-> k] : k \in AuthorityKeys}

\* Config::builder().add_source(File::new(path, FileFormat::Toml)).build():
\* Err for a file that cannot be read or parsed as TOML.
ConfigBuild(f) == f.state \notin {"missing", "unreadable", "malformed"}

\* config.try_deserialize::<T>(): Err unless the document matches the schema.
TryDeserialize(f) == f.state = "valid"

\* create_default_pool_config()
create_default_pool_config ==
    [src |-> "default",
     authority_public_key |-> DEFAULT_AUTHORITY_KEY,
     coinbase_outputs |->
        << CoinbaseOutput("P2WPKH",
              PubKey("032a384861cb109a7b69b550601e4935ee30903be6b281f058a3c65c657938f8f8", <<>>)) >>]

\* create_default_proxy_config(pool_config)
create_default_proxy_config(pool_config) ==
    [src |-> "default",
     upstream_authority_pubkey |-> pool_config.authority_public_key]

\* load_or_create_proxy_config(config_path, pool_config); src = "error" is the
\* Err that `config.try_deserialize()?` returns.
load_or_create_proxy_config_no_override(f, pool_config) ==
    IF ConfigBuild(f)
    THEN IF TryDeserialize(f)
         THEN [src |-> "file", upstream_authority_pubkey |-> f.upstream_authority_pubkey]
         ELSE [src |-> "error", upstream_authority_pubkey |-> "none"]
    ELSE create_default_proxy_config(pool_config)
load_or_create_proxy_config(f, pool_config) ==
    IF ConfigBuild(f)
    THEN IF TryDeserialize(f)
         THEN [src |-> "file",
               upstream_authority_pubkey |-> pool_config.authority_public_key]
         ELSE [src |-> "error", upstream_authority_pubkey |-> "none"]
    ELSE create_default_proxy_config(pool_config)

\* load_or_create_pool_config(config_path); src = "error" is the Err that
\* `config.try_deserialize::<PoolConfiguration>()?` returns.
load_or_create_pool_config(f) ==
    IF ConfigBuild(f)
    THEN IF TryDeserialize(f)
         THEN [src |-> "file",
               authority_public_key |-> f.authority_public_key,
               coinbase_outputs |-> f.coinbase_outputs]
         ELSE [src |-> "error", authority_public_key |-> "none", coinbase_outputs |-> <<>>]
    ELSE create_default_pool_config

\* The resolver called as its signatures prescribe: the pool configuration
\* first, ...
ResolvePoolConfig ==
    /\ pc = "resolve_pool"
    /\ \E f \in PoolFiles :
        /\ poolCfg' = load_or_create_pool_config(f)
        /\ pc' = IF poolCfg'.src = "error" THEN "resolve_failed" ELSE "resolve_proxy"
    /\ UNCHANGED <<argVars, errVars, outcome, nodeVars, waitVars, proxyCfg, coinbase,
                   proxyPrev, resolves,
                   promptVars, tokenVars, engineVars>>

\* ... then the proxy configuration with that pool configuration, possibly
\* again (from whatever the file holds by then).
ResolveProxyConfig ==
    /\ pc = "resolve_proxy"
    /\ resolves < MaxResolves
    /\ \E f \in ProxyFiles :
        /\ proxyCfg' = load_or_create_proxy_config(f, poolCfg)
        /\ pc' = IF proxyCfg'.src = "error" THEN "resolve_failed" ELSE "resolve_proxy"
    /\ proxyPrev' = proxyCfg
    /\ resolves' = resolves + 1
    /\ UNCHANGED <<argVars, errVars, outcome, nodeVars, waitVars, poolCfg, coinbase,
                   promptVars, tokenVars, engineVars>>

\* let proxy_settings = load_or_create_proxy_config(&args.proxy_config_path)?
\* main resolves the proxy configuration before pool_settings exists and
\* passes no pool configuration: the authority key the resolver installs is
\* not tied to the pool configuration resolved afterwards.
MainLoadProxyConfig ==
    /\ pc = "proxy_config"
    /\ \E f \in ProxyFiles, k \in AuthorityKeys :
        /\ proxyCfg' = load_or_create_proxy_config(f,
                            [NoPoolCfg EXCEPT !.authority_public_key = k])
        /\ IF proxyCfg'.src = "error"
           THEN MainReturn(Err("ProxyConfig"))
           ELSE /\ pc' = "pool_config"
                /\ UNCHANGED outcome
    /\ resolves' = resolves + 1
    /\ UNCHANGED <<argVars, errVars, nodeVars, waitVars, poolCfg, coinbase, proxyPrev,
                   promptVars, tokenVars, engineVars>>

\* let mut pool_settings = load_or_create_pool_config(&args.pool_mint_config_path)?
MainLoadPoolConfig ==
    /\ pc = "pool_config"
    /\ \E f \in PoolFiles :
        /\ poolCfg' = load_or_create_pool_config(f)
        /\ IF poolCfg'.src = "error"
           THEN MainReturn(Err("PoolConfig"))
           ELSE /\ pc' = "coinbase"
                /\ UNCHANGED outcome
    /\ UNCHANGED <<argVars, errVars, nodeVars, waitVars, proxyCfg, coinbase, proxyPrev,
                   resolves, promptVars, tokenVars, engineVars>>

(***************************************************************************)
(* configuration: the coinbase output                                      *)
(*                                                                         *)
(* Text is a sequence of tokens: a separator or whitespace character, or a *)
(* run of other characters (a number, a key) taken as one token.           *)
(***************************************************************************)
Whitespace == {" ", "\n"}

\* Decimal numbers that occur in the paths explored.
NumberTokens == {"0", "1", "84"}

\* Extended public keys that decode (slip132::FromSlip132::from_slip132_str).
ValidXpubs == {"tpub_supplied", "tpub_console"}

RECURSIVE TrimStart(_)
TrimStart(s) ==
    IF s # <<>> /\ Head(s) \in Whitespace THEN TrimStart(Tail(s)) ELSE s

RECURSIVE TrimEnd(_)
TrimEnd(s) ==
    IF s # <<>> /\ s[Len(s)] \in Whitespace
    THEN TrimEnd(SubSeq(s, 1, Len(s) - 1))
    ELSE s

\* str::trim
Trim(s) == TrimEnd(TrimStart(s))

\* str::split(sep), collected
RECURSIVE SplitOn(_, _)
SplitOn(s, sep) ==
    IF s = <<>>
    THEN << <<>> >>
    ELSE LET r == SplitOn(Tail(s), sep)
         IN  IF Head(s) = sep
             THEN << <<>> >> \o r
             ELSE << <<Head(s)>> \o Head(r) >> \o Tail(r)

\* u32::from_str
ParseU32(s) == Len(s) = 1 /\ s[1] \in NumberTokens

\* bip32 ChildNumber::from_str: a final ' or h marks a hardened index, the
\* rest (or, without the mark, the whole text) must parse as a u32.
ChildNumber_from_str(s) ==
    LET is_hardened == s # <<>> /\ s[Len(s)] \in {"'", "h"}
        digits == IF is_hardened THEN SubSeq(s, 1, Len(s) - 1) ELSE s
    IN  [ok |-> ParseU32(digits),
         hardened |-> is_hardened,
         index |-> IF ParseU32(digits) THEN digits[1] ELSE "none"]

\* bip32 DerivationPath::from_str: split on '/', the first part must be "m",
\* every other part must be a child number.
DerivationPath_from_str(path) ==
    LET parts == SplitOn(path, "/")
        children == [i \in 1..(Len(parts) - 1) |-> ChildNumber_from_str(parts[i + 1])]
    IN  IF parts[1] # <<"m">> \/ \E i \in 1..Len(children) : ~children[i].ok
        THEN [ok |-> FALSE, children |-> <<>>]
        ELSE [ok |-> TRUE, children |-> children]

NoKey == PubKey("none", <<>>)

\* derive_child_public_key(xpub, path): DerivationPath::from_str(path)?, then
\* xpub.derive_pub(..)?, which fails on a hardened child.
derive_child_public_key(x, path) ==
    LET dp == DerivationPath_from_str(path)
    IN  IF dp.ok /\ \A i \in 1..Len(dp.children) : ~dp.children[i].hardened
        THEN [ok |-> TRUE,
              key |-> PubKey(x, [i \in 1..Len(dp.children) |-> dp.children[i].index])]
        ELSE [ok |-> FALSE, key |-> NoKey]

\* validate_xpub(input)
validate_xpub(input) == Len(input) = 1 /\ input[1] \in ValidXpubs

\* "m/84/1/0", the path of the prompt's empty answer and the default of
\* --derivation-path.
DEFAULT_PATH == <<"m", "/", "84", "/", "1", "/", "0">>

\* Option<String>
None == [some |-> FALSE, text |-> <<>>]
Some(t) == [some |-> TRUE, text |-> t]

\* Values of the coinbase_output and derivation_path parameters.
ArgCoinbaseOutputs == {None, Some(<<"tpub_supplied">>), Some(<<"not_a_key">>)}
ArgDerivationPaths == {DEFAULT_PATH, <<"m", "/", "0", "'">>, <<"84", "/", "1">>}

NoArgs == [coinbase_output |-> None, derivation_path |-> <<>>, called |-> FALSE]

\* A line as io::stdin().read_line delivers it (the text keeps its newline),
\* or the io::Error of flush or read_line.
Line(t) == [io |-> "ok", text |-> t]
IoError == [io |-> "error", text |-> <<>>]

\* Answers to the key prompt.
KeyLines ==
    { Line(<<"tpub_console", "\n">>),
      Line(<<"not_a_key", "\n">>),
      IoError }

\* Answers to the path prompt: enter alone, an override path, the same at the
\* end of the input without a newline, a hardened path, a malformed path.
PathLines ==
    { Line(<<"\n">>),
      Line(<<"m", "/", "0", "/", "0", "\n">>),
      Line(<<"m", "/", "0", "/", "0">>),
      Line(<<"m", "/", "0", "'">>),
      Line(<<"0", "/", "0", "\n">>),
      IoError }

NoLine == [phase |-> "none", io |-> "none", text |-> <<>>]
NoRes == [kind |-> "none", key |-> NoKey]
OkKey(k) == [kind |-> "Ok", key |-> k]

\* The arm process_coinbase_output takes for its parameters.
ProcessArm(args) ==
    IF ~args.coinbase_output.some THEN "not_supplied"
    ELSE IF ~validate_xpub(args.coinbase_output.text) THEN "invalid_key"
    ELSE IF ~derive_child_public_key(args.coinbase_output.text[1],
                                     args.derivation_path).ok
         THEN "derivation_failed"
    ELSE "supplied"

\* How process_coinbase_output hands on what prompt_for_coinbase_output
\* returned: the match with panic! of the first arm, `?` in the others.
PromptResultDropped(arm, r) == NoRes
PromptResult(arm, r) ==
    IF r.kind = "Err" /\ arm = "not_supplied"
    THEN [kind |-> "Panic", key |-> NoKey]
    ELSE r

\* process_coinbase_output(coinbase_output, derivation_path) up to its return
\* or its call of prompt_for_coinbase_output.
process_coinbase_output(args) ==
    /\ obtained' = ProcessArm(args)
    /\ IF ProcessArm(args) = "supplied"
       THEN /\ coinbaseRes' =
                  OkKey(derive_child_public_key(args.coinbase_output.text[1],
                                                args.derivation_path).key)
            /\ coinbase' = "derived"
            /\ callArgs' = NoArgs
            /\ pc' = "coinbase_done"
       ELSE /\ callArgs' = [args EXCEPT !.called = TRUE]
            /\ pc' = "prompt_key"
            /\ UNCHANGED <<coinbaseRes, coinbase>>
    /\ UNCHANGED <<xpub, lastLine>>

\* prompt_for_coinbase_output returns r, and with it process_coinbase_output.
PromptReturn(r) ==
    /\ coinbaseRes' = PromptResult(obtained, r)
    /\ coinbase' = IF r.kind = "Ok" THEN "derived" ELSE coinbase
    /\ callArgs' = NoArgs
    /\ pc' = "coinbase_done"

\* First loop of prompt_for_coinbase_output: one line is read and validated.
PromptReadKey ==
    /\ pc = "prompt_key"
    /\ \E l \in KeyLines :
        /\ lastLine' = [phase |-> "key", io |-> l.io, text |-> l.text]
        /\ IF l.io = "error"
           THEN /\ PromptReturn([kind |-> "Err", key |-> NoKey])
                /\ UNCHANGED xpub
           ELSE IF validate_xpub(Trim(l.text))
           THEN /\ xpub' = Trim(l.text)[1]
                /\ pc' = "prompt_path"
                /\ UNCHANGED <<coinbaseRes, coinbase, callArgs>>
           ELSE UNCHANGED <<pc, xpub, coinbaseRes, coinbase, callArgs>>
    /\ UNCHANGED <<argVars, errVars, outcome, nodeVars, waitVars, proxyCfg, poolCfg,
                   proxyPrev, resolves, obtained, tokenVars, engineVars>>

\* The text handed to derive_child_public_key for a line of the path prompt:
\* the default when the line is blank, else the line as read.
PathInput(text) == IF Trim(text) = <<>> THEN DEFAULT_PATH ELSE text

\* Second loop of prompt_for_coinbase_output: one line is read and the key
\* derived at its path.
PromptReadPath ==
    /\ pc = "prompt_path"
    /\ \E l \in PathLines :
        /\ lastLine' = [phase |-> "path", io |-> l.io, text |-> l.text]
        /\ IF l.io = "error"
           THEN PromptReturn([kind |-> "Err", key |-> NoKey])
           ELSE IF derive_child_public_key(xpub, PathInput(l.text)).ok
           THEN PromptReturn(OkKey(derive_child_public_key(xpub, PathInput(l.text)).key))
           ELSE UNCHANGED <<pc, coinbaseRes, coinbase, callArgs>>
    /\ UNCHANGED xpub
    /\ UNCHANGED <<argVars, errVars, outcome, nodeVars, waitVars, proxyCfg, poolCfg,
                   proxyPrev, resolves, obtained, tokenVars, engineVars>>

\* process_coinbase_output called on its own, after the configurations.
CallProcessCoinbaseOutput ==
    /\ pc = "resolve_proxy"
    /\ proxyCfg.src \in {"file", "default"}
    /\ \E co \in ArgCoinbaseOutputs, dp \in ArgDerivationPaths :
        process_coinbase_output(
            [coinbase_output |-> co, derivation_path |-> dp, called |-> FALSE])
    /\ UNCHANGED <<argVars, errVars, outcome, nodeVars, waitVars, proxyCfg, poolCfg,
                   proxyPrev, resolves, tokenVars, engineVars>>

\* let coinbase_output = process_coinbase_output(&mut args)?
MainProcessCoinbase ==
    /\ pc = "coinbase"
    /\ \E co \in ArgCoinbaseOutputs, dp \in ArgDerivationPaths :
        process_coinbase_output(
            [coinbase_output |-> co, derivation_path |-> dp, called |-> FALSE])
    /\ UNCHANGED <<argVars, errVars, outcome, nodeVars, waitVars, proxyCfg, poolCfg,
                   proxyPrev, resolves, tokenVars, engineVars>>

\* The `?` on process_coinbase_output's failure, or its panic unwinding main.
MainCoinbaseFailed ==
    /\ pc = "coinbase_done"
    /\ coinbaseRes.kind \in {"Err", "Panic"}
    /\ MainReturn(IF coinbaseRes.kind = "Err"
                  THEN Err("Coinbase")
                  ELSE [kind |-> "Panic", cause |-> "You borked it!"])
    /\ UNCHANGED <<argVars, errVars, nodeVars, waitVars, cfgVars, tokenVars, engineVars>>

\* pool_settings.coinbase_outputs = vec![CoinbaseOutput::new("P2WPKH", ..)];
\* then the select! expression builds the two engine futures (not yet polled).
MainInstallCoinbase ==
    /\ pc = "coinbase_done"
    /\ coinbaseRes.kind = "Ok"
    /\ poolCfg' = [poolCfg EXCEPT
                     !.coinbase_outputs = <<CoinbaseOutput("P2WPKH", coinbaseRes.key)>>]
    /\ coinbase' = "installed"
    /\ engine' = [e \in Engines |-> "created"]
    /\ pc' = "select"
    /\ UNCHANGED <<argVars, errVars, outcome, nodeVars, waitVars, proxyCfg, proxyPrev,
                   resolves, promptVars, tokenVars, engineResult, polled, event>>

\* select! polls an engine's future, which is not complete yet.
SelectPollPending ==
    /\ pc = "select"
    /\ \E e \in Engines :
        /\ engine[e] = "created"
        /\ engine' = [engine EXCEPT ![e] = "running"]
        /\ polled' = polled \cup {e}
    /\ UNCHANGED <<argVars, errVars, pc, outcome, nodeVars, waitVars, cfgVars, tokenVars,
                   engineResult, event>>

\* Leaving select!: the futures of the branches that did not complete are
\* dropped where they stand.
DropLosers(winner) ==
    [e \in Engines |-> IF e = winner THEN "returned" ELSE "dropped"]

\* cancel_token.cancel()
Cancel ==
    /\ cancelled' = TRUE
    /\ cancelCount' = cancelCount + 1

\* A select! branch of an engine completes with result r:
\*   if let Err(e) = result { error!(..); cancel_token.cancel(); return Err(e); }
\* and otherwise falls through to "Shutdown complete"; Ok(()).
EngineBranchNoCancel(e, r) ==
    /\ pc = "select"
    /\ engine[e] \in {"created", "running"}
    /\ engine' = DropLosers(e)
    /\ engineResult' = [engineResult EXCEPT ![e] = r]
    /\ polled' = polled \cup {e}
    /\ event' = [branch |-> e, result |-> r]
    /\ MainReturn(Ok)
    /\ UNCHANGED <<cancelled, cancelCount>>
    /\ UNCHANGED <<argVars, errVars, nodeVars, waitVars, cfgVars, tokenCreated>>
EngineBranchCancelTwice(e, r) ==
    /\ pc = "select"
    /\ engine[e] \in {"created", "running"}
    /\ engine' = DropLosers(e)
    /\ engineResult' = [engineResult EXCEPT ![e] = r]
    /\ polled' = polled \cup {e}
    /\ event' = [branch |-> e, result |-> r]
    /\ IF r = "Ok"
       THEN /\ MainReturn(Ok)
            /\ UNCHANGED <<cancelled, cancelCount>>
       ELSE /\ cancelled' = TRUE
            /\ cancelCount' = cancelCount + 2
            /\ MainReturn(Err(r))
    /\ UNCHANGED <<argVars, errVars, nodeVars, waitVars, cfgVars, tokenCreated>>
EngineBranch(e, r) ==
    /\ pc = "select"
    /\ engine[e] \in {"created", "running"}
    /\ engine' = DropLosers(e)
    /\ engineResult' = [engineResult EXCEPT ![e] = r]
    /\ polled' = polled \cup {e}
    /\ event' = [branch |-> e, result |-> r]
    /\ IF r = "Ok"
       THEN /\ MainReturn(Ok)
            /\ UNCHANGED <<cancelled, cancelCount>>
       ELSE /\ Cancel
            /\ MainReturn(Err(r))
    /\ UNCHANGED <<argVars, errVars, nodeVars, waitVars, cfgVars, tokenCreated>>

\* proxy_result = proxy_wallet::run(proxy_settings, cancel_token_proxy) => ...
SelectProxy == \E r \in {"Ok"} \cup EngineErrors : EngineBranch("proxy", r)

\* pool_result = pool_mint::run(pool_settings, cancel_token_pool) => ...
SelectPool == \E r \in {"Ok"} \cup EngineErrors : EngineBranch("pool", r)

\* _ = tokio::signal::ctrl_c() => { info!(..); cancel_token.cancel(); }
\* then "Shutdown complete"; Ok(())
SelectCtrlC ==
    /\ pc = "select"
    /\ engine' = DropLosers("none")
    /\ event' = [branch |-> "ctrl_c", result |-> "none"]
    /\ Cancel
    /\ MainReturn(Ok)
    /\ UNCHANGED <<argVars, errVars, nodeVars, waitVars, cfgVars, tokenCreated,
                   engineResult, polled>>

(***************************************************************************)
(* Specifications                                                          *)
(***************************************************************************)
(***************************************************************************)
(* error: the From conversions and Display                                 *)
(*                                                                         *)
(* A failure value is a source category (its type) and a cause.  Rendered  *)
(* text is a sequence of pieces: a literal of the format string, the name  *)
(* of a wrapping constructor, the {:?} text of a cause, or the quoted      *)
(* to_string() text of a cause.                                            *)
(***************************************************************************)
Causes == {"cause_1", "cause_2", "cause_3"}

\* The types with an `impl From<_> for Error`, PoolError apart.
ErrorSources ==
    { "binary_sv2::Error", "noise_sv2::Error", "framing_sv2::Error",
      "std::io::Error", "ParseIntError", "roles_logic_sv2::Error",
      "serde_json::Error", "ConfigError", "sv1_api::Error",
      "async_channel::RecvError", "broadcast::RecvError", "PoisonError<T>",
      "SendError<SubmitSharesExtended>", "SendError<mining::SetNewPrevHash>",
      "broadcast::SendError<Notify>", "SendError<sv1_api::Message>",
      "SendError<(ExtendedExtranonce, u32)>", "SendError<NewExtendedMiningJob>",
      "SendError<SetCustomMiningJob>", "SendError<(template::SetNewPrevHash, Vec<u8>)>",
      "Vec<u8>", "ParseLengthError", "SetDifficulty", "Infallible", "Mining",
      "SendError<()>", "SendError<template::NewTemplate>",
      "SendError<template::SetNewPrevHash>" }

\* The types with an `impl From<_> for PoolError`.
PoolSources ==
    { "std::io::Error", "async_channel::RecvError", "binary_sv2::Error",
      "codec_sv2::Error", "noise_sv2::Error", "roles_logic_sv2::Error",
      "SendError<T>", "String", "framing_sv2::Error",
      "PoisonError<MutexGuard<T>>", "(u32, Mining)" }

NoSrc == [category |-> "none", cause |-> "none"]
NoLift == [type |-> "none", variant |-> "none", sub |-> "none",
           form |-> "none", cause |-> "none"]

\* Error::variant(e): the cause is stored as it is.
ErrorWith(variant, e) ==
    [type |-> "Error", variant |-> variant, sub |-> "none",
     form |-> "value", cause |-> e]

\* Error::ChannelErrorSender(ChannelSendError::sub(e))
SenderWith(sub, e) ==
    [type |-> "Error", variant |-> "ChannelErrorSender", sub |-> sub,
     form |-> "value", cause |-> e]

\* Error::ChannelErrorSender(ChannelSendError::General(e.to_string()))
SenderGeneral(e) ==
    [type |-> "Error", variant |-> "ChannelErrorSender", sub |-> "General",
     form |-> "to_string", cause |-> e]

\* impl From<_> for Error, one arm per impl.
ErrorFrom(src) ==
    LET e == src.cause
    IN  CASE src.category = "binary_sv2::Error" -> ErrorWith("BinarySv2", e)
        [] src.category = "noise_sv2::Error" -> ErrorWith("CodecNoise", e)
        [] src.category = "framing_sv2::Error" -> ErrorWith("FramingSv2", e)
        [] src.category = "std::io::Error" -> ErrorWith("Io", e)
        [] src.category = "ParseIntError" -> ErrorWith("ParseInt", e)
        [] src.category = "roles_logic_sv2::Error" -> ErrorWith("RolesSv2Logic", e)
        [] src.category = "serde_json::Error" -> ErrorWith("BadSerdeJson", e)
        [] src.category = "ConfigError" -> ErrorWith("BadConfigDeserialize", e)
        [] src.category = "sv1_api::Error" -> ErrorWith("V1Protocol", e)
        [] src.category = "async_channel::RecvError" -> ErrorWith("ChannelErrorReceiver", e)
        [] src.category = "broadcast::RecvError" -> ErrorWith("TokioChannelErrorRecv", e)
        [] src.category = "PoisonError<T>" ->
              [type |-> "Error", variant |-> "PoisonLock", sub |-> "none",
               form |-> "dropped", cause |-> "none"]
        [] src.category = "SendError<SubmitSharesExtended>" ->
              SenderWith("SubmitSharesExtended", e)
        [] src.category = "SendError<mining::SetNewPrevHash>" ->
              SenderWith("SetNewPrevHash", e)
        [] src.category = "broadcast::SendError<Notify>" -> SenderWith("Notify", e)
        [] src.category = "SendError<sv1_api::Message>" -> SenderWith("V1Message", e)
        [] src.category = "SendError<(ExtendedExtranonce, u32)>" ->
              SenderWith("Extranonce", e)
        [] src.category = "SendError<NewExtendedMiningJob>" ->
              SenderWith("NewExtendedMiningJob", e)
        [] src.category = "SendError<SetCustomMiningJob>" ->
              SenderWith("SetCustomMiningJob", e)
        [] src.category = "SendError<(template::SetNewPrevHash, Vec<u8>)>" ->
              SenderWith("NewTemplate", e)
        [] src.category = "Vec<u8>" -> ErrorWith("VecToSlice32", e)
        [] src.category = "ParseLengthError" -> ErrorWith("Uint256Conversion", e)
        [] src.category = "SetDifficulty" -> ErrorWith("SetDifficultyToMessage", e)
        [] src.category = "Infallible" -> ErrorWith("Infallible", e)
        [] src.category = "Mining" -> ErrorWith("Sv2ProtocolError", e)
        [] src.category = "SendError<()>" -> SenderGeneral(e)
        [] src.category = "SendError<template::NewTemplate>" -> SenderGeneral(e)
        [] src.category = "SendError<template::SetNewPrevHash>" -> SenderGeneral(e)

\* PoolError::variant(e)
PoolWith(variant, e) ==
    [type |-> "PoolError", variant |-> variant, sub |-> "none",
     form |-> "value", cause |-> e]

\* impl From<_> for PoolError, one arm per impl.
PoolErrorFrom(src) ==
    LET e == src.cause
    IN  CASE src.category = "std::io::Error" -> PoolWith("Io", e)
        [] src.category = "async_channel::RecvError" -> PoolWith("ChannelRecv", e)
        [] src.category = "binary_sv2::Error" -> PoolWith("BinarySv2", e)
        [] src.category = "codec_sv2::Error" -> PoolWith("Codec", e)
        [] src.category = "noise_sv2::Error" -> PoolWith("Noise", e)
        [] src.category = "roles_logic_sv2::Error" -> PoolWith("RolesLogic", e)
        [] src.category = "SendError<T>" -> PoolWith("ChannelSend", e)
        [] src.category = "String" -> PoolWith("Custom", e)
        [] src.category = "framing_sv2::Error" -> PoolWith("Framing", e)
        [] src.category = "PoisonError<MutexGuard<T>>" ->
              [type |-> "PoolError", variant |-> "PoisonLock", sub |-> "none",
               form |-> "to_string", cause |-> e]
        [] src.category = "(u32, Mining)" -> PoolWith("Sv2ProtocolError", e)

\* impl From<PoolError> for Error: Error::MiningPoolError(val)
ErrorFromPoolErrorOpaque(val) ==
    [type |-> "Error", variant |-> "MiningPoolError", sub |-> "none",
     form |-> "dropped", cause |-> "none"]
ErrorFromPoolError(val) ==
    [type |-> "Error", variant |-> "MiningPoolError", sub |-> val.variant,
     form |-> val.form, cause |-> val.cause]

\* Pieces of rendered text.
Literal(t) == [piece |-> "literal", text |-> t]
Ctor(name) == [piece |-> "constructor", text |-> name]
DebugText(c) == [piece |-> "debug", text |-> c]
QuotedDisplayText(c) == [piece |-> "display", text |-> c]

\* {:?} of the payload a variant holds: of the cause itself, or of the String
\* that to_string() made of it.
PayloadDebug(e) ==
    IF e.form = "value" THEN <<DebugText(e.cause)>>
    ELSE IF e.form = "to_string" THEN <<QuotedDisplayText(e.cause)>>
    ELSE <<>>

\* The literal each arm of impl Display for Error writes (without the
\* backquotes).
ErrorTag(variant) ==
    CASE variant = "BadSerdeJson" -> "Bad serde json"
      [] variant = "BadConfigDeserialize" -> "Bad config TOML deserialize"
      [] variant = "BinarySv2" -> "Binary SV2 error"
      [] variant = "CodecNoise" -> "Noise error"
      [] variant = "FramingSv2" -> "Framing SV2 error"
      [] variant = "Io" -> "I/O error"
      [] variant = "ParseInt" -> "Bad convert from String to int"
      [] variant = "RolesSv2Logic" -> "Roles SV2 Logic Error"
      [] variant = "V1Protocol" -> "V1 Protocol Error"
      [] variant = "PoisonLock" -> "Poison Lock error"
      [] variant = "ChannelErrorReceiver" -> "Channel receive error"
      [] variant = "TokioChannelErrorRecv" -> "Channel receive error"
      [] variant = "ChannelErrorSender" -> "Channel send error"
      [] variant = "Uint256Conversion" -> "U256 Conversion Error"
      [] variant = "SetDifficultyToMessage" -> "Error converting SetDifficulty to Message"
      [] variant = "VecToSlice32" -> "Standard Error"
      [] variant = "Infallible" -> "Infallible Error"
      [] variant = "Sv2ProtocolError" -> "Received Sv2 Protocol Error from upstream"
      [] variant = "MiningPoolError" -> "Pool error"

\* The literal each arm of impl Display for PoolError writes.
PoolTag(variant) ==
    CASE variant = "Io" -> "I/O error"
      [] variant = "ChannelSend" -> "Channel send failed"
      [] variant = "ChannelRecv" -> "Channel recv failed"
      [] variant = "BinarySv2" -> "Binary SV2 error"
      [] variant = "Codec" -> "Codec SV2 error"
      [] variant = "Framing" -> "Framing SV2 error"
      [] variant = "Noise" -> "Noise SV2 error"
      [] variant = "RolesLogic" -> "Roles Logic SV2 error"
      [] variant = "PoisonLock" -> "Poison lock"
      [] variant = "Custom" -> "Custom SV2 error"
      [] variant = "Sv2ProtocolError" -> "Received Sv2 Protocol Error from upstream"

\* impl Display for Error; ChannelSendError and PoolError derive Debug, which
\* writes the constructor's name around the payload.
DisplayError(e) ==
    IF e.variant \in {"ChannelErrorSender", "MiningPoolError"}
    THEN <<Literal(ErrorTag(e.variant)), Ctor(e.sub)>> \o PayloadDebug(e)
    ELSE <<Literal(ErrorTag(e.variant))>> \o PayloadDebug(e)

\* impl Display for PoolError
DisplayPoolError(e) == <<Literal(PoolTag(e.variant))>> \o PayloadDebug(e)

\* An external failure is converted into Error and displayed.
LiftToError ==
    /\ pc = "lift"
    /\ lifted = NoLift
    /\ \E cat \in ErrorSources, c \in Causes :
        /\ liftSrc' = [category |-> cat, cause |-> c]
        /\ lifted' = ErrorFrom(liftSrc')
        /\ shown' = DisplayError(lifted')
    /\ UNCHANGED <<argVars, pc, outcome, nodeVars, waitVars, cfgVars, tokenVars,
                   engineVars>>

\* An external failure is converted into PoolError and displayed.
LiftToPoolError ==
    /\ pc = "lift"
    /\ lifted = NoLift
    /\ \E cat \in PoolSources, c \in Causes :
        /\ liftSrc' = [category |-> cat, cause |-> c]
        /\ lifted' = PoolErrorFrom(liftSrc')
        /\ shown' = DisplayPoolError(lifted')
    /\ UNCHANGED <<argVars, pc, outcome, nodeVars, waitVars, cfgVars, tokenVars,
                   engineVars>>

\* A PoolError is converted into Error and displayed.
EmbedPoolError ==
    /\ pc = "lift"
    /\ lifted.type = "PoolError"
    /\ lifted' = ErrorFromPoolError(lifted)
    /\ shown' = DisplayError(lifted')
    /\ UNCHANGED <<argVars, liftSrc, pc, outcome, nodeVars, waitVars, cfgVars,
                   tokenVars, engineVars>>

InitState ==
    /\ initial_sync \in BOOLEAN
    /\ outcome = NoOutcome
    /\ dirCreated = FALSE
    /\ conf = <<>>
    /\ child = "none"
    /\ client = 0
    /\ newResult = "none"
    /\ wait_time = INITIAL_WAIT
    /\ elapsed = 0
    /\ ready = "none"
    /\ last = "none"
    /\ callAt = 0
    /\ attempts = 0
    /\ syncSleeps = 0
    /\ waitCalls = 0
    /\ tokenCreated = FALSE
    /\ cancelled = FALSE
    /\ cancelCount = 0
    /\ proxyCfg = NoProxyCfg
    /\ poolCfg = NoPoolCfg
    /\ proxyPrev = NoProxyCfg
    /\ resolves = 0
    /\ callArgs = NoArgs
    /\ xpub = "none"
    /\ lastLine = NoLine
    /\ obtained = "none"
    /\ coinbaseRes = NoRes
    /\ liftSrc = NoSrc
    /\ lifted = NoLift
    /\ shown = <<>>
    /\ coinbase = "none"
    /\ engine = [e \in Engines |-> "not_created"]
    /\ engineResult = [e \in Engines |-> "none"]
    /\ polled = {}
    /\ event = [branch |-> "none", result |-> "none"]

\* The process: main entered with parsed arguments.
Init ==
    /\ network \in Networks
    /\ pc = "start"
    /\ newCalls = 0
    /\ InitState

Next ==
    \/ MainnetCheck
    \/ NewCreateDir
    \/ NewWriteConf
    \/ NewSpawn
    \/ NewClient
    \/ MainLaunchFailed
    \/ CallWaitForReady
    \/ WaitStatusOk
    \/ WaitStatusErr
    \/ MainAfterWait
    \/ MainCreateToken
    \/ MainLoadProxyConfig
    \/ MainLoadPoolConfig
    \/ MainProcessCoinbase
    \/ PromptReadKey
    \/ PromptReadPath
    \/ MainCoinbaseFailed
    \/ MainInstallCoinbase
    \/ SelectPollPending
    \/ SelectProxy
    \/ SelectPool
    \/ SelectCtrlC

Spec == Init /\ [][Next]_vars

\* The configuration resolver used on its own, called as its signatures
\* prescribe: load_or_create_pool_config, load_or_create_proxy_config with
\* the pool configuration, process_coinbase_output.
ConfigInit ==
    /\ network \in SupportedNetworks
    /\ pc = "resolve_pool"
    /\ newCalls = 0
    /\ InitState

ConfigNext ==
    \/ ResolvePoolConfig
    \/ ResolveProxyConfig
    \/ CallProcessCoinbaseOutput
    \/ PromptReadKey
    \/ PromptReadPath

ConfigSpec == ConfigInit /\ [][ConfigNext]_vars

\* The error taxonomy used on its own: any external failure is converted by
\* its From impl (and a PoolError further into Error), then displayed.
ErrorInit ==
    /\ network \in SupportedNetworks
    /\ pc = "lift"
    /\ newCalls = 0
    /\ InitState

ErrorNext ==
    \/ LiftToError
    \/ LiftToPoolError
    \/ EmbedPoolError

ErrorSpec == ErrorInit /\ [][ErrorNext]_vars

\* The supervisor used on its own: BitcoinNode::new(data_dir, network) called
\* with any network value, then wait_for_ready(initial_sync) on the handle.
NodeInit ==
    /\ network \in Networks
    /\ pc = "new"
    /\ newCalls = 1
    /\ InitState

NodeNext ==
    \/ NewCreateDir
    \/ NewWriteConf
    \/ NewSpawn
    \/ NewClient
    \/ CallWaitForReady
    \/ WaitStatusOk
    \/ WaitStatusErr

NodeSpec == NodeInit /\ [][NodeNext]_vars

\* The same, where every status call and every sleep of wait_for_ready
\* completes: an enabled loop iteration is eventually taken.
NodeLiveSpec ==
    NodeInit /\ [][NodeNext]_vars /\ WF_vars(WaitStatusOk \/ WaitStatusErr)

(***************************************************************************)
(* Properties                                                              *)
(***************************************************************************)
StatusOks == {"ok_ibd", "ok_synced"}

\* C1: in NormalStart mode a wait whose status calls all fail returns Timeout,
\* at an elapsed time T (the sum of the backoff sleeps) with
\* 8 min <= T < 8 min + the backoff interval in force, itself at most 30 s;
\* a wait that ended on a failed call ended with Timeout, never Ready.
C1_TimeoutWindow ==
    ~initial_sync =>
        /\ (ready = "Timeout" =>
                /\ last = "err"
                /\ MAX_WAIT <= elapsed
                /\ elapsed < MAX_WAIT + wait_time
                /\ wait_time <= MAX_RETRY_INTERVAL)
        /\ ((ready # "none" /\ last = "err") => ready = "Timeout")

\* C1 witness: the permanently failing transport: 21 failed calls, the last
\* one issued at 481 s with the backoff at its cap.
C1_Witness ==
    /\ ~initial_sync
    /\ ready = "Timeout"
    /\ elapsed = 481
    /\ attempts = 21
    /\ wait_time = MAX_RETRY_INTERVAL

\* C2 (as claimed): in NormalStart mode wait_for_ready never returns Ready from
\* a status call issued at or after the 8-minute mark.
C2_NoReadyAfterDeadline ==
    (~initial_sync /\ ready = "Ready") => callAt < MAX_WAIT

\* C2 (amended): in NormalStart mode a status call issued at or after the
\* 8-minute mark that FAILS ends the wait with Timeout, whatever the backoff
\* interval; one that succeeds still ends it with Ready, and Ready is only
\* ever returned from a successful call.
C2_TimeoutOnFailureAfterDeadline ==
    ~initial_sync =>
        /\ ((last = "err" /\ callAt >= MAX_WAIT) => (ready = "Timeout" /\ pc # "polling"))
        /\ ((last \in StatusOks) => ready = "Ready")
        /\ (ready = "Ready" => last \in StatusOks)
        /\ (ready = "Timeout" => callAt >= MAX_WAIT)

\* C2 witness: Ready returned from a call issued after the 8-minute mark.
C2_Witness ==
    /\ ~initial_sync
    /\ ready = "Ready"
    /\ callAt >= MAX_WAIT

\* C3: in InitialSync mode there is no deadline: the wait never returns
\* Timeout, it has not returned after a call that failed or reported
\* initial_block_download = true (however much time has elapsed), and it
\* returns Ready exactly at the first successful call reporting false.
C3_SyncNoDeadline ==
    initial_sync =>
        /\ ready # "Timeout"
        /\ (last \in {"ok_ibd", "err"} => (ready = "none" /\ pc = "polling"))
        /\ (last = "ok_synced" => ready = "Ready")
        /\ (ready = "Ready" => last = "ok_synced")

\* C3 witness: Ready declared hours after the first attempt.
C3_Witness ==
    /\ initial_sync
    /\ ready = "Ready"
    /\ elapsed = MaxSyncSleeps * SYNC_CHECK_INTERVAL
    /\ elapsed > MAX_WAIT

\* C4: an engine's future exists (and so can be polled) only after
\* BitcoinNode::new has returned a handle and wait_for_ready has returned Ready.
C4_ReadyBeforeEngines ==
    \A e \in Engines :
        (engine[e] # "not_created" \/ e \in polled) =>
            /\ newResult = "Ok"
            /\ child = "running"
            /\ client # 0
            /\ ready = "Ready"

\* C4 witness: both engines have been polled.
C4_Witness ==
    /\ polled = Engines
    /\ \A e \in Engines : engine[e] = "running"
    /\ ready = "Ready"

\* C5 (as claimed): once the signal has been cancelled, main does not return
\* before every engine that was started has returned.
C5_JoinsStartedEngines ==
    (pc = "done" /\ cancelled) =>
        \A e \in polled : engine[e] = "returned"

\* C6: when the first event is an engine failure, main has cancelled the signal
\* and returned that same failure; when it is Ctrl+C, main has cancelled the
\* signal and returned success; no engine is polled again (no retry) and none
\* is left running.
C6_ShutdownOutcome ==
    /\ (event.branch \in Engines /\ event.result \in EngineErrors) =>
            /\ pc = "done"
            /\ outcome = Err(event.result)
            /\ engineResult[event.branch] = event.result
            /\ cancelled
            /\ \A e \in Engines : engine[e] \in {"returned", "dropped"}
    /\ (event.branch = "ctrl_c") =>
            /\ pc = "done"
            /\ outcome = Ok
            /\ cancelled
            /\ \A e \in Engines : engine[e] = "dropped"

\* C6 witness: the pool engine fails first, while the proxy is pending.
C6_Witness ==
    /\ event = [branch |-> "pool", result |-> "e1"]
    /\ "proxy" \in polled
    /\ outcome = Err("e1")

\* C7 (as claimed): whenever main returns after the engines were started the
\* signal is cancelled and cancel() was invoked exactly once, also when the
\* first engine to terminate returned without a failure.
C7_CancelledExactlyOnce ==
    (pc = "done" /\ event.branch # "none") => (cancelled /\ cancelCount = 1)

\* C7 (amended): cancel() is invoked at most once; when main returns after the
\* engines were started, it was invoked exactly once if the first event was an
\* engine failure or Ctrl+C, and not at all (the signal stays uncancelled) if
\* the first engine to terminate returned without a failure.
C7_CancelledOnceUnlessCleanReturn ==
    /\ cancelCount <= 1
    /\ cancelled <=> (cancelCount = 1)
    /\ (pc = "done" /\ event.branch # "none") =>
            IF event.result = "Ok"
            THEN cancelCount = 0 /\ ~cancelled
            ELSE cancelCount = 1 /\ cancelled
    /\ (event.branch = "none") => cancelCount = 0

\* C7 witness: an engine failed first and the signal was cancelled once.
C7_Witness ==
    /\ pc = "done"
    /\ event.branch = "proxy"
    /\ event.result \in EngineErrors
    /\ cancelCount = 1

\* C8: with the production network selected main returns a failure and nothing
\* is ever constructed: no data directory, no configuration file, no node
\* process, no RPC client, no pool/proxy/coinbase configuration, no engine.
C8_MainnetRejectedFirst ==
    network = "Bitcoin" =>
        /\ pc \in {"start", "done"}
        /\ (pc = "done" => outcome = Err("Mainnet"))
        /\ newCalls = 0
        /\ ~dirCreated
        /\ conf = <<>>
        /\ child = "none"
        /\ client = 0
        /\ waitCalls = 0
        /\ ~tokenCreated
        /\ proxyCfg = NoProxyCfg /\ poolCfg = NoPoolCfg /\ coinbase = "none"
        /\ \A e \in Engines : engine[e] = "not_created"

\* C8 witness: main has returned the mainnet failure.
C8_Witness ==
    /\ network = "Bitcoin"
    /\ pc = "done"
    /\ outcome = Err("Mainnet")

\* A fatal-at-startup condition has occurred.
FatalAtStartup ==
    \/ network = "Bitcoin"
    \/ newResult \notin {"none", "Ok"}
    \/ ready = "Timeout"

\* C9: once a fatal-at-startup condition has occurred (production network,
\* unsupported network, node launch failure, readiness Timeout) main's only
\* continuation is to return a failure: nothing is retried, no configuration
\* is resolved and no engine is created.
C9_FatalAtStartup ==
    FatalAtStartup =>
        /\ pc \in {"start", "launched", "waited", "done"}
        /\ (pc = "done" => outcome.kind = "Err")
        /\ (pc = "done" /\ ready = "Timeout" => outcome = Err("Timeout"))
        /\ (pc = "done" /\ newResult \notin {"none", "Ok"} => outcome = Err(newResult))
        /\ newCalls <= 1
        /\ waitCalls <= 1
        /\ proxyCfg = NoProxyCfg /\ poolCfg = NoPoolCfg /\ coinbase = "none"
        /\ \A e \in Engines : engine[e] = "not_created"
        /\ polled = {}

\* C9 witness: main has returned the readiness Timeout.
C9_Witness ==
    /\ ready = "Timeout"
    /\ pc = "done"
    /\ outcome = Err("Timeout")
    /\ child = "running"

C11_UpstreamKeyIsPoolKey ==
    /\ proxyCfg.src \in {"file", "default"} =>
          proxyCfg.upstream_authority_pubkey = poolCfg.authority_public_key
    /\ proxyPrev.src \in {"file", "default"} =>
          proxyPrev.upstream_authority_pubkey = poolCfg.authority_public_key

\* Resolved twice, once from the default factory and once from a file,
\* against a pool configuration whose key is not the default one.
C11_Witness ==
    /\ resolves = 2
    /\ proxyPrev.src = "default"
    /\ proxyCfg.src = "file"
    /\ poolCfg.src = "file"
    /\ poolCfg.authority_public_key # DEFAULT_AUTHORITY_KEY

\* C12 (as claimed): load_or_create_pool_config never returns a failure,
\* whatever the state of the pool configuration file.
C12_PoolConfigNeverFails ==
    poolCfg.src # "error"

\* C13 (as claimed): load_or_create_proxy_config never returns a failure,
\* whatever the state of the proxy configuration file.
C13_ProxyConfigNeverFails ==
    proxyCfg.src # "error"

(***************************************************************************)
(* Coinbase output                                                         *)
(***************************************************************************)
\* C14 (as claimed): process_coinbase_output with a supplied value that is
\* rejected (invalid key, or derivation failing at the given path) does not
\* return a failure.
C14_RejectedNeverFails ==
    obtained \in {"invalid_key", "derivation_failed"} =>
        coinbaseRes.kind \notin {"Err", "Panic"}

\* C14 (amended): a rejected supplied value makes process_coinbase_output
\* enter the prompt loop without returning anything for that value, and what
\* it finally returns is what the loop returned: the key derived from the
\* key and path lines read from the console, or the loop's failure when
\* reading the console failed.
C14_RejectedEntersLoop ==
    /\ (callArgs.called /\ callArgs.coinbase_output.some) =>
          /\ ProcessArm(callArgs) \in {"invalid_key", "derivation_failed"}
          /\ obtained = ProcessArm(callArgs)
          /\ pc \in {"prompt_key", "prompt_path"}
          /\ coinbaseRes = NoRes
    /\ (obtained \in {"invalid_key", "derivation_failed"} /\ ~callArgs.called) =>
          /\ pc \notin {"prompt_key", "prompt_path"}
          /\ coinbaseRes.kind \in {"Ok", "Err"}
          /\ coinbaseRes.kind = "Err" => lastLine.io = "error"
          /\ coinbaseRes.kind = "Ok" =>
                /\ lastLine.phase = "path"
                /\ lastLine.io = "ok"
                /\ xpub \in ValidXpubs
                /\ coinbaseRes.key =
                      derive_child_public_key(xpub, PathInput(lastLine.text)).key
                /\ coinbaseRes.key # NoKey

\* A supplied valid key with a failing derivation was followed by console
\* input, and the call returned the key derived from the console's key.
C14_Witness ==
    /\ obtained = "derivation_failed"
    /\ pc = "coinbase_done"
    /\ coinbaseRes.kind = "Ok"
    /\ coinbaseRes.key = PubKey("tpub_console", <<"84", "1", "0">>)

\* C15 (as claimed): the loop asks again only after a line that is invalid:
\* once a valid key has been accepted, a path line is answered by a new
\* prompt only if the path it holds is malformed or has a hardened child;
\* an acceptable path line makes the loop return.
C15_RepromptOnlyOnInvalidLine ==
    (pc = "prompt_path" /\ lastLine.phase = "path") =>
        LET t == Trim(lastLine.text)
        IN  ~derive_child_public_key(xpub, IF t = <<>> THEN DEFAULT_PATH ELSE t).ok

\* C16 (as claimed): a path line holding a well-formed non-hardened override
\* path, as read_line returns it, is accepted and the key returned is the one
\* derived at that path.
C16_OverridePathAccepted ==
    LET t == Trim(lastLine.text)
    IN  (/\ lastLine.phase = "path"
         /\ lastLine.io = "ok"
         /\ t # <<>>
         /\ derive_child_public_key(xpub, t).ok) =>
            coinbaseRes = OkKey(derive_child_public_key(xpub, t).key)

(***************************************************************************)
(* Startup sequence                                                        *)
(***************************************************************************)
\* C17 (as claimed): when the engines are started the pool configuration
\* holds exactly one coinbase output, P2WPKH, wrapping the key returned by
\* process_coinbase_output, and the proxy configuration's upstream key equals
\* the pool configuration's authority key.
C17_EnginesGetConsistentConfigs ==
    (\E e \in Engines : engine[e] # "not_created") =>
        /\ coinbaseRes.kind = "Ok"
        /\ poolCfg.coinbase_outputs = <<CoinbaseOutput("P2WPKH", coinbaseRes.key)>>
        /\ proxyCfg.upstream_authority_pubkey = poolCfg.authority_public_key

\* C18 (as claimed): the proxy configuration is resolved after the pool
\* configuration, and the cancellation signal is constructed after the
\* coinbase output has been installed into the pool configuration.
C18_StartupOrder ==
    /\ proxyCfg.src # "none" => poolCfg.src # "none"
    /\ tokenCreated => coinbase = "installed"


(***************************************************************************)
(* Error taxonomy                                                          *)
(***************************************************************************)
\* The pieces of a rendered text.
Pieces(t) == {t[i] : i \in 1..Len(t)}

\* C19 (as claimed): for every From conversion into Error or PoolError the
\* Display text of the result contains the category tag of the resulting
\* variant together with the debug text of the original cause.
C19_LiftPreservesCause ==
    lifted.type # "none" =>
        /\ Literal(IF lifted.type = "Error"
                   THEN ErrorTag(lifted.variant)
                   ELSE PoolTag(lifted.variant)) \in Pieces(shown)
        /\ DebugText(liftSrc.cause) \in Pieces(shown)

\* C20: a PoisonError converts to Error::PoisonLock and to
\* PoolError::PoisonLock, never to another variant or to no error, and a
\* PoolError::PoisonLock embedded in Error::MiningPoolError is still that
\* variant inside and is named in the Display text.
C20_PoisonStaysPoisonLock ==
    liftSrc.category \in {"PoisonError<T>", "PoisonError<MutexGuard<T>>"} =>
        /\ lifted.type \in {"Error", "PoolError"}
        /\ lifted.variant \in {"PoisonLock", "MiningPoolError"}
        /\ lifted.variant = "MiningPoolError" =>
              /\ lifted.type = "Error"
              /\ lifted.sub = "PoisonLock"
              /\ Ctor("PoisonLock") \in Pieces(shown)
        /\ lifted.variant = "PoisonLock" =>
              Literal(IF lifted.type = "Error"
                      THEN ErrorTag("PoisonLock")
                      ELSE PoolTag("PoisonLock")) \in Pieces(shown)

\* A PoisonError went into PoolError and from there into Error.
C20_Witness ==
    /\ liftSrc.category = "PoisonError<MutexGuard<T>>"
    /\ lifted.type = "Error"
    /\ lifted.variant = "MiningPoolError"
    /\ lifted.sub = "PoisonLock"


(***************************************************************************)
(* Readiness wait, continued                                               *)
(***************************************************************************)
\* C21: in NormalStart mode the sleep after the n-th consecutive failed status
\* call is the n-th term of 1, 2, 4, 8, 16, 30, 30, ... seconds: the interval
\* in force after k slept failures is term k + 1, the time slept so far is
\* the sum of the first k terms, and the interval is always one of
\* {1, 2, 4, 8, 16, 30}.
C21_BackoffSequence ==
    ~initial_sync =>
        LET terms == <<1, 2, 4, 8, 16, 30>>
            Term(n) == IF n <= 6 THEN terms[n] ELSE 30
            RECURSIVE Slept(_)
            Slept(n) == IF n = 0 THEN 0 ELSE Slept(n - 1) + Term(n)
            k == IF ready = "none" THEN attempts ELSE attempts - 1
        IN  /\ wait_time \in {1, 2, 4, 8, 16, 30}
            /\ wait_time = Term(k + 1)
            /\ elapsed = Slept(k)

\* Seven failed calls: slept 1 + 2 + 4 + 8 + 16 + 30 + 30 s, interval at 30 s.
C21_Witness ==
    /\ ~initial_sync
    /\ pc = "polling"
    /\ last = "err"
    /\ attempts = 7
    /\ elapsed = 91
    /\ wait_time = 30

\* C22: the wait returns Ready at the first status call that succeeds with
\* sync mode off, or with sync mode on and the node no longer in initial block
\* download; in NormalStart a success reporting initial_block_download = true
\* is Ready too; a failed call before the deadline returns nothing and is
\* followed by a sleep of the backoff interval; after Ready no status call is
\* issued.
C22_ReadyAtFirstQualifyingSuccess ==
    /\ [](/\ (ready = "Ready") <=>
                (last = "ok_synced" \/ (last = "ok_ibd" /\ ~initial_sync))
          /\ (~initial_sync /\ last = "err" /\ callAt < MAX_WAIT) =>
                /\ ready = "none"
                /\ pc = "polling"
                /\ elapsed > callAt
                /\ elapsed - callAt <= MAX_RETRY_INTERVAL
                /\ wait_time = Min(2 * (elapsed - callAt), MAX_RETRY_INTERVAL))
    /\ [][ready = "Ready" => UNCHANGED <<attempts, last, callAt, ready, elapsed>>]_vars

\* NormalStart: some failed calls, then a success reporting
\* initial_block_download = true.
C22_Witness ==
    /\ ~initial_sync
    /\ ready = "Ready"
    /\ last = "ok_ibd"
    /\ attempts = 4
    /\ callAt = 7

\* C23: in InitialSync mode every failed status call and every successful
\* call reporting initial_block_download = true is followed by a sleep of
\* exactly 3600 s, so the n-th attempt is made at (n - 1) * 3600 s; no call
\* ends the wait with a failure or a Timeout, and the backoff interval stays
\* at its initial value.
C23_SyncHourlyCadence ==
    initial_sync =>
        /\ ready \in {"none", "Ready"}
        /\ wait_time = INITIAL_WAIT
        /\ elapsed = syncSleeps * SYNC_CHECK_INTERVAL
        /\ attempts > 0 => callAt = (attempts - 1) * SYNC_CHECK_INTERVAL
        /\ last \in {"err", "ok_ibd"} =>
              /\ pc = "polling"
              /\ syncSleeps = attempts
              /\ elapsed = callAt + SYNC_CHECK_INTERVAL

\* A failed call and a still-syncing call, each followed by an hour's sleep.
C23_Witness ==
    /\ initial_sync
    /\ pc = "polling"
    /\ last = "err"
    /\ attempts = 2
    /\ elapsed = 2 * SYNC_CHECK_INTERVAL


\* C24: in NormalStart mode wait_for_ready terminates: once polling it
\* eventually returns Ready or Timeout, whatever the status calls answer, and
\* it issues at most 21 status calls (20 slept failures bring the elapsed time
\* to 481 s, past the 480 s deadline).
C24_NormalStartTerminates ==
    /\ [](~initial_sync => attempts <= 21)
    /\ (~initial_sync /\ pc = "polling") ~>
          (pc = "waited" /\ ready \in {"Ready", "Timeout"})

\* The longest NormalStart wait: the 21st status call has returned.
C24_Witness ==
    /\ ~initial_sync
    /\ pc = "waited"
    /\ attempts = 21
    /\ callAt = 481


\* C25: wait_for_ready changes nothing but its own state: from its call to
\* its return, Timeout included, the child process stays running, the written
\* node configuration, the data directory and the RPC client stay as new()
\* left them, and no pool or proxy configuration, cancellation signal,
\* engine or result of main is touched.
C25_WaitChangesNothingElse ==
    /\ [](pc \in {"polling", "waited"} =>
            /\ child = "running"
            /\ conf = RenderConf(RpcPort(network))
            /\ proxyCfg = NoProxyCfg
            /\ poolCfg = NoPoolCfg)
    /\ [][(pc = "polling" \/ pc' = "polling") =>
            UNCHANGED <<argVars, outcome, nodeVars, cfgVars, tokenVars,
                        engineVars>>]_vars

\* wait_for_ready has returned Timeout and the child is still running.
C25_Witness ==
    /\ pc = "waited"
    /\ ready = "Timeout"
    /\ child = "running"
    /\ conf # <<>>
    /\ outcome = NoOutcome


(***************************************************************************)
(* Node launch, continued                                                  *)
(***************************************************************************)
\* C26: BitcoinNode::new writes the configuration file before it spawns the
\* node process and constructs the RPC client after the spawn, without any
\* status call or wait; a failure of a step (directory creation, write,
\* executable lookup, spawn, client construction) is returned with no later
\* step performed.
C26_NewStepOrder ==
    /\ conf # <<>> => dirCreated
    /\ child # "none" => (dirCreated /\ conf = RenderConf(RpcPort(network)))
    /\ client # 0 => (child = "running" /\ newResult = "Ok")
    /\ pc \in {"new", "new_ports", "new_which", "new_client", "launched"} =>
          (attempts = 0 /\ elapsed = 0 /\ waitCalls = 0)
    /\ newResult = "Io" => (child = "none" /\ client = 0 /\ conf = <<>>)
    /\ newResult \in {"NotFound", "Spawn"} => (child = "none" /\ client = 0)
    /\ newResult = "Client" => (child = "running" /\ client = 0)
    /\ newResult \notin {"none", "Ok"} => (pc \notin {"polling", "waited"} /\ waitCalls = 0)

\* The spawn failed after the configuration file had been written.
C26_Witness ==
    /\ newResult = "Spawn"
    /\ dirCreated
    /\ conf # <<>>
    /\ child = "none"
    /\ client = 0

\* C27 (as claimed): the written document is scoped to the selected network:
\* its chain flag and the name of its bracketed section are those of the
\* network (regtest=1 and [regtest], testnet=1 and [test], signet=1 and
\* [signet]).
C27_ConfScopedToNetwork ==
    conf # <<>> =>
        LET flag == CASE network = "Regtest" -> "regtest"
                      [] network = "Testnet" -> "testnet"
                      [] network = "Signet" -> "signet"
                      [] OTHER -> "none"
            section == CASE network = "Regtest" -> "regtest"
                         [] network = "Testnet" -> "test"
                         [] network = "Signet" -> "signet"
                         [] OTHER -> "none"
        IN  /\ \E i \in DOMAIN conf : conf[i].sec = "" /\ conf[i].key = flag
            /\ \A i \in DOMAIN conf :
                  conf[i].sec = "" => conf[i].key \notin ({"regtest", "testnet", "signet"} \ {flag})
            /\ \A i \in DOMAIN conf : conf[i].sec \in {"", section}

\* C28 (as claimed): a send failure maps to the generic sub-tag only when its
\* payload has no specific kind (the unit payload); share submission, new
\* job, new previous-hash, extranonce update, custom job and new template
\* payloads each map to a sub-tag of their own.
C28_GenericOnlyWithoutPayloadKind ==
    (lifted.variant = "ChannelErrorSender" /\ lifted.sub = "General") =>
        liftSrc.category = "SendError<()>"

====
